---- MODULE Spec2Model ----
(***************************************************************************)
(* Model of the two example crates of the_book/projects:                   *)
(*   Program A  modules/src/main.rs      (binary crate, fn main)           *)
(*   Program B  restaurant/src/lib.rs    (library crate, eat_at_restaurant)*)
(* Function bodies are statement lists run by one small interpreter, one   *)
(* thread of control per program.  Paths in call statements are resolved   *)
(* over the module tree of lib.rs under the privacy rules the sources      *)
(* describe.                                                               *)
(***************************************************************************)
EXTENDS Integers, Sequences, FiniteSets, TLC

VARIABLES stack, out, status, world, calls, eatDone, direct, made, log,
          lastRet, baseObs, consec, rpath, rfrom, rresult, rdone

\* stack[p]   call stack of program p: frames [fn, pc, plant, entry], where
\*            pc indexes FnBody(fn), plant is main's local and entry is the
\*            observable state at the time of the call
\* out[p]     lines written to standard output by program p
\* status[p]  "running", "success" (main returned) or "error"
\* world      state owned by the code that calls eat_at_restaurant
\* calls[f]   invocations of library function f so far
\* eatDone    completed calls of eat_at_restaurant
\* direct     invocations of nested functions made on their own
\* made       marker values constructed so far
\* log        construct / print / drop events of marker values
\* lastRet    function, entry state and exit state of the last return in B
\* baseObs    observable state before the current run of consecutive calls
\* consec     length of the current run of consecutive calls
\* rpath, rfrom, rresult, rdone   the last path resolved, the module it was
\*            resolved from, the item found, and whether one was resolved
vars == <<stack, out, status, world, calls, eatDone, direct, made, log,
          lastRet, baseObs, consec, rpath, rfrom, rresult, rdone>>

(* ------------------------------ bounds --------------------------------- *)

\* number of times the caller of the library invokes eat_at_restaurant
MaxCalls == 3
\* the caller's own state ranges over 0..MaxWorld
MaxWorld == 2
\* call-stack depth at which a call is refused
MaxDepth == 4
\* number of direct invocations of the nested functions
MaxDirect == 2
\* longest path handed to the resolver
MaxPathLen == 4

(* --------------------------- module tree ------------------------------- *)

None == "<none>"

Modules == {"crate", "front_of_house", "hosting", "serving"}

NestedFns == {"add_to_waitlist", "seat_at_table",
              "take_order", "serve_order", "take_payment"}

LibFns == NestedFns \cup {"eat_at_restaurant"}

Items == (Modules \ {"crate"}) \cup LibFns

Names == Items \cup {"crate"}

Parent(i) ==
    CASE i = "front_of_house"    -> "crate"
      [] i = "eat_at_restaurant" -> "crate"
      [] i = "hosting"           -> "front_of_house"
      [] i = "serving"           -> "front_of_house"
      [] i = "add_to_waitlist"   -> "hosting"
      [] i = "seat_at_table"     -> "hosting"
      [] i = "take_order"        -> "serving"
      [] i = "serve_order"       -> "serving"
      [] i = "take_payment"      -> "serving"
      [] OTHER                   -> None

PubItems == {"hosting", "add_to_waitlist", "eat_at_restaurant"}

IsPub(i) == i \in PubItems

RECURSIVE Depth(_)
Depth(i) == IF i \in Items THEN 1 + Depth(Parent(i)) ELSE 0

RECURSIVE IsAncestorOrSelf(_, _)
IsAncestorOrSelf(a, m) ==
    IF a = m THEN TRUE
    ELSE IF m \in Items THEN IsAncestorOrSelf(a, Parent(m))
    ELSE FALSE

\* privacy not enforced
VisibleAlways(i, from) == TRUE

Visible(i, from) == IsPub(i) \/ IsAncestorOrSelf(Parent(i), from)

Child(m, name) == IF name \in Items /\ Parent(name) = m THEN name ELSE None

RECURSIVE ResolveFrom(_, _, _)
ResolveFrom(cur, rest, from) ==
    IF rest = <<>> THEN cur
    ELSE LET c == Child(cur, Head(rest))
         IN  IF c = None \/ ~Visible(c, from) THEN None
             ELSE ResolveFrom(c, Tail(rest), from)

Resolve(path, from) ==
    IF path = <<>> THEN None
    ELSE IF Head(path) = "crate" THEN ResolveFrom("crate", Tail(path), from)
    ELSE ResolveFrom(from, path, from)

ModuleOf(fn) == IF fn \in Items THEN Parent(fn) ELSE "crate"

(* --------------------------- function bodies --------------------------- *)

AbsPath == <<"crate", "front_of_house", "hosting", "add_to_waitlist">>

RelPath == <<"front_of_house", "hosting", "add_to_waitlist">>

CallStmt(p) == [op |-> "call", path |-> p, type |-> None, fmt |-> <<>>]

LetStmt(t) == [op |-> "let", path |-> <<>>, type |-> t, fmt |-> <<>>]

PrintlnStmt(f) == [op |-> "println", path |-> <<>>, type |-> None, fmt |-> f]

\* add_to_waitlist writes a line
FnBodyNoisy(fn) ==
    CASE fn = "main" ->
           << LetStmt("Asparagus"),
              PrintlnStmt(<<"I'm growing ", "{:?}", "!">>) >>
      [] fn = "eat_at_restaurant" ->
           << CallStmt(AbsPath), CallStmt(RelPath) >>
      [] fn = "add_to_waitlist" -> << PrintlnStmt(<<"waitlisted">>) >>
      [] OTHER -> <<>>

\* take_payment writes a line
FnBodyPaymentPrints(fn) ==
    CASE fn = "main" ->
           << LetStmt("Asparagus"),
              PrintlnStmt(<<"I'm growing ", "{:?}", "!">>) >>
      [] fn = "eat_at_restaurant" ->
           << CallStmt(AbsPath), CallStmt(RelPath) >>
      [] fn = "take_payment" -> << PrintlnStmt(<<"paid">>) >>
      [] OTHER -> <<>>

\* eat_at_restaurant calls itself
FnBodyRecursive(fn) ==
    CASE fn = "main" ->
           << LetStmt("Asparagus"),
              PrintlnStmt(<<"I'm growing ", "{:?}", "!">>) >>
      [] fn = "eat_at_restaurant" ->
           << CallStmt(AbsPath), CallStmt(<<"crate", "eat_at_restaurant">>) >>
      [] OTHER -> <<>>

\* eat_at_restaurant calls into the private module serving
FnBodyPrivateCall(fn) ==
    CASE fn = "main" ->
           << LetStmt("Asparagus"),
              PrintlnStmt(<<"I'm growing ", "{:?}", "!">>) >>
      [] fn = "eat_at_restaurant" ->
           << CallStmt(AbsPath),
              CallStmt(<<"front_of_house", "serving", "take_order">>) >>
      [] OTHER -> <<>>

\* main prints the plant twice
FnBodyPrintTwice(fn) ==
    CASE fn = "main" ->
           << LetStmt("Asparagus"),
              PrintlnStmt(<<"I'm growing ", "{:?}", "!">>),
              PrintlnStmt(<<"I'm growing ", "{:?}", "!">>) >>
      [] fn = "eat_at_restaurant" ->
           << CallStmt(AbsPath), CallStmt(RelPath) >>
      [] OTHER -> <<>>

\* eat_at_restaurant makes the relative call only
FnBodyOneCall(fn) ==
    CASE fn = "main" ->
           << LetStmt("Asparagus"),
              PrintlnStmt(<<"I'm growing ", "{:?}", "!">>) >>
      [] fn = "eat_at_restaurant" -> << CallStmt(RelPath) >>
      [] OTHER -> <<>>

FnBody(fn) ==
    CASE fn = "main" ->
           << LetStmt("Asparagus"),
              PrintlnStmt(<<"I'm growing ", "{:?}", "!">>) >>
      [] fn = "eat_at_restaurant" ->
           << CallStmt(AbsPath), CallStmt(RelPath) >>
      [] OTHER -> <<>>

(* ------------------------------ values --------------------------------- *)

Unbound == [state |-> "unbound", type |-> None, id |-> 0]

Construct(t, n) == [state |-> "live", type |-> t, id |-> n]

DebugFmt(v) == v.type

RECURSIVE Render(_, _)
Render(fmt, v) ==
    IF fmt = <<>> THEN ""
    ELSE (IF Head(fmt) = "{:?}" THEN DebugFmt(v) ELSE Head(fmt))
         \o Render(Tail(fmt), v)

UsesArg(fmt) == \E i \in 1..Len(fmt) : fmt[i] = "{:?}"

PrintlnTwice(o, line) == Append(Append(o, line), line)

\* out is the sequence of newline-terminated lines written so far
Println(o, line) == Append(o, line)

(* ------------------------------ state ---------------------------------- *)

Procs == {"A", "B"}

ObsOf(p) == [world |-> world, out |-> out[p], status |-> status[p]]

Obs == ObsOf("B")

NewFrame(fn, obs) == [fn |-> fn, pc |-> 1, plant |-> Unbound, entry |-> obs]

Top(p) == stack[p][Len(stack[p])]

PopFrame(s) == SubSeq(s, 1, Len(s) - 1)

AtStmt(p) ==
    /\ stack[p] # <<>>
    /\ status[p] = "running"
    /\ Top(p).pc <= Len(FnBody(Top(p).fn))

Stmt(p) == FnBody(Top(p).fn)[Top(p).pc]

SetTop(p, fr) == [stack EXCEPT ![p][Len(stack[p])] = fr]

InitProgram ==
    /\ stack = [p \in Procs |->
                  IF p = "A" THEN << [fn |-> "main", pc |-> 1, plant |-> Unbound,
                                      entry |-> [world |-> 0, out |-> <<>>,
                                                 status |-> "running"]] >>
                  ELSE <<>>]
    /\ out = [p \in Procs |-> <<>>]
    /\ status = [p \in Procs |-> "running"]
    /\ world \in 0..MaxWorld
    /\ calls = [f \in LibFns |-> 0]
    /\ eatDone = 0
    /\ direct = 0
    /\ made = 0
    /\ log = <<>>
    /\ lastRet = [fn |-> None,
                  before |-> [world |-> world, out |-> <<>>, status |-> "running"],
                  after  |-> [world |-> world, out |-> <<>>, status |-> "running"],
                  depth |-> 0]
    /\ baseObs = [world |-> world, out |-> <<>>, status |-> "running"]
    /\ consec = 0

Init ==
    /\ InitProgram
    /\ rpath = <<>>
    /\ rfrom = "crate"
    /\ rresult = None
    /\ rdone = FALSE

(* --------------------------- the interpreter --------------------------- *)

progVars == <<stack, out, status, calls, eatDone, made, log, lastRet, consec>>

resVars == <<rpath, rfrom, rresult, rdone>>

\* `let plant = Asparagus {};`
ExecLet(p) ==
    /\ AtStmt(p)
    /\ Stmt(p).op = "let"
    /\ stack' = SetTop(p, [Top(p) EXCEPT !.pc = @ + 1,
                                         !.plant = Construct(Stmt(p).type, made + 1)])
    /\ made' = made + 1
    /\ log' = Append(log, [ev |-> "construct", inst |-> made + 1])
    /\ UNCHANGED <<out, status, world, calls, eatDone, direct, lastRet,
                   baseObs, consec, resVars>>

\* `println!(fmt, plant);`
ExecPrintln(p) ==
    /\ AtStmt(p)
    /\ Stmt(p).op = "println"
    /\ IF UsesArg(Stmt(p).fmt) /\ Top(p).plant.state # "live"
       THEN /\ status' = [status EXCEPT ![p] = "error"]
            /\ UNCHANGED <<stack, out, log>>
       ELSE /\ out' = [out EXCEPT ![p] = Println(@, Render(Stmt(p).fmt, Top(p).plant))]
            /\ log' = IF UsesArg(Stmt(p).fmt)
                      THEN Append(log, [ev |-> "print", inst |-> Top(p).plant.id])
                      ELSE log
            /\ stack' = SetTop(p, [Top(p) EXCEPT !.pc = @ + 1])
            /\ UNCHANGED status
    /\ UNCHANGED <<world, calls, eatDone, direct, made, lastRet,
                   baseObs, consec, resVars>>

\* a call through a path: the path is resolved from the caller's module
ExecCall(p) ==
    /\ AtStmt(p)
    /\ Stmt(p).op = "call"
    /\ Len(stack[p]) < MaxDepth
    /\ LET from == ModuleOf(Top(p).fn)
           t    == Resolve(Stmt(p).path, from)
       IN  /\ rpath' = Stmt(p).path
           /\ rfrom' = from
           /\ rresult' = t
           /\ rdone' = TRUE
           /\ IF t \notin LibFns
              THEN /\ status' = [status EXCEPT ![p] = "error"]
                   /\ UNCHANGED <<stack, calls>>
              ELSE /\ stack' = [stack EXCEPT ![p] =
                                  Append(SubSeq(@, 1, Len(@) - 1),
                                         [Top(p) EXCEPT !.pc = @ + 1])
                                  \o << NewFrame(t, ObsOf(p)) >>]
                   /\ calls' = [calls EXCEPT ![t] = @ + 1]
                   /\ UNCHANGED status
    /\ UNCHANGED <<out, world, eatDone, direct, made, log, lastRet,
                   baseObs, consec>>

\* the closing brace of a function: locals are dropped, control returns
ExecReturn(p) ==
    /\ stack[p] # <<>>
    /\ status[p] = "running"
    /\ Top(p).pc > Len(FnBody(Top(p).fn))
    /\ stack' = [stack EXCEPT ![p] = PopFrame(@)]
    /\ log' = IF Top(p).plant.state = "live"
              THEN Append(log, [ev |-> "drop", inst |-> Top(p).plant.id])
              ELSE log
    /\ status' = IF p = "A" /\ Len(stack[p]) = 1
                 THEN [status EXCEPT ![p] = "success"]
                 ELSE status
    /\ lastRet' = IF p = "B"
                  THEN [fn |-> Top(p).fn, before |-> Top(p).entry,
                        after |-> ObsOf(p), depth |-> Len(stack[p])]
                  ELSE lastRet
    /\ IF p = "B" /\ Top(p).fn = "eat_at_restaurant" /\ Len(stack[p]) = 1
       THEN eatDone' = eatDone + 1 /\ consec' = consec + 1
       ELSE UNCHANGED <<eatDone, consec>>
    /\ UNCHANGED <<out, world, calls, direct, made, baseObs, resVars>>

\* other code of the crate calls the public function
CallEat ==
    /\ stack["B"] = <<>>
    /\ status["B"] = "running"
    /\ eatDone < MaxCalls
    /\ stack' = [stack EXCEPT !["B"] = << NewFrame("eat_at_restaurant", Obs) >>]
    /\ calls' = [calls EXCEPT !["eat_at_restaurant"] = @ + 1]
    /\ UNCHANGED <<out, status, world, eatDone, direct, made, log, lastRet,
                   baseObs, consec, resVars>>

\* the caller does work of its own between two calls
CallerStep ==
    /\ stack["B"] = <<>>
    /\ status["B"] = "running"
    /\ \E w \in (0..MaxWorld) \ {world} :
          /\ world' = w
          /\ baseObs' = [world |-> w, out |-> out["B"], status |-> status["B"]]
    /\ consec' = 0
    /\ UNCHANGED <<stack, out, status, calls, eatDone, direct, made, log,
                   lastRet, resVars>>

\* a nested function invoked on its own
DirectInvoke(f) ==
    /\ stack["B"] = <<>>
    /\ status["B"] = "running"
    /\ direct < MaxDirect
    /\ stack' = [stack EXCEPT !["B"] = << NewFrame(f, Obs) >>]
    /\ calls' = [calls EXCEPT ![f] = @ + 1]
    /\ direct' = direct + 1
    /\ UNCHANGED <<out, status, world, eatDone, made, log, lastRet,
                   baseObs, consec, resVars>>

\* one query to the path resolver
ApplyResolve ==
    /\ ~rdone
    /\ rresult' = Resolve(rpath, rfrom)
    /\ rdone' = TRUE
    /\ UNCHANGED <<progVars, world, direct, baseObs, rpath, rfrom>>

Run(p) == ExecLet(p) \/ ExecPrintln(p) \/ ExecCall(p) \/ ExecReturn(p)

Next ==
    \/ \E p \in Procs : ExecLet(p)
    \/ \E p \in Procs : ExecPrintln(p)
    \/ \E p \in Procs : ExecCall(p)
    \/ \E p \in Procs : ExecReturn(p)
    \/ CallEat
    \/ CallerStep

Spec == Init /\ [][Next]_vars

FairSpec == Spec /\ WF_vars(Run("A")) /\ WF_vars(Run("B"))

NextNested == Next \/ \E f \in NestedFns : DirectInvoke(f)

SpecNested == Init /\ [][NextNested]_vars

Paths == UNION { [1..n -> Names] : n \in 1..MaxPathLen }

InitResolve ==
    /\ InitProgram
    /\ world = 0
    /\ rpath \in Paths
    /\ rfrom \in Modules
    /\ rresult = None
    /\ rdone = FALSE

SpecResolve == InitResolve /\ [][ApplyResolve]_vars

(* ------------------------------- claims -------------------------------- *)

BStack == stack["B"]

InEat == BStack # <<>> /\ BStack[1].fn = "eat_at_restaurant"

\* C1: Program A never has more than one line on standard output, and once
\* main has returned the output is exactly the one line
\* `I'm growing Asparagus!` and the exit status is success.
C1_OneLineThenSuccess ==
    /\ Len(out["A"]) <= 1
    /\ stack["A"] = <<>> =>
          /\ out["A"] = << "I'm growing Asparagus!" >>
          /\ status["A"] = "success"

C1_Witness == stack["A"] = <<>> /\ Len(out["A"]) = 1

\* C2: during and after every call of eat_at_restaurant the observable state
\* (caller state, standard output, error status) is the one the call was
\* entered with, whatever that state was.
C2_EatFrame ==
    /\ InEat => Obs = BStack[1].entry
    /\ lastRet.fn = "eat_at_restaurant" => lastRet.after = lastRet.before

C2_Witness ==
    /\ lastRet.fn = "eat_at_restaurant"
    /\ lastRet.before.world = 1
    /\ BStack = <<>>

\* C3: after any number n >= 0 of consecutive calls of eat_at_restaurant the
\* observable state equals the state before the first of them.
C3_NoCumulativeEffect ==
    BStack = <<>> => Obs = baseObs

C3_Witness == BStack = <<>> /\ consec >= 2

\* C4: every function running on behalf of eat_at_restaurant has an empty
\* body and sits two modules below the crate root inside the non-public
\* module front_of_house; nothing is called from those functions.
C4_CalleesEmptyNested ==
    InEat =>
      /\ Len(BStack) <= 2
      /\ \A i \in 2..Len(BStack) :
            /\ FnBody(BStack[i].fn) = <<>>
            /\ Depth(Parent(BStack[i].fn)) = 2
            /\ IsAncestorOrSelf("front_of_house", BStack[i].fn)
            /\ ~IsPub("front_of_house")

C4_Witness == InEat /\ Len(BStack) = 2 /\ BStack[1].pc = 3

\* C5: a nested function invoked on its own returns with the observable
\* state it was entered with, and without error.
C5_NestedFrame ==
    /\ (BStack # <<>> /\ Top("B").fn \in NestedFns) =>
          /\ Obs = Top("B").entry
          /\ status["B"] = "running"
    /\ lastRet.fn \in NestedFns =>
          /\ lastRet.after = lastRet.before
          /\ lastRet.after.status = "running"

C5_Witness ==
    /\ lastRet.fn = "take_payment"
    /\ lastRet.depth = 1
    /\ calls["seat_at_table"] > 0

\* C6: neither program ever reaches an error state; a program that has
\* stopped has stopped by completing.
C6_NoError ==
    /\ \A p \in Procs : status[p] # "error"
    /\ \A p \in Procs : status[p] = "success" => stack[p] = <<>>
    /\ stack["A"] = <<>> <=> status["A"] = "success"

C6_Witness == status["A"] = "success" /\ eatDone = MaxCalls

\* C7: the marker value is constructed once, then printed once, then
\* dropped, in that order; the print uses the constructed instance and the
\* instance is gone when main has returned.
Lifecycle ==
    << [ev |-> "construct", inst |-> 1],
       [ev |-> "print", inst |-> 1],
       [ev |-> "drop", inst |-> 1] >>

C7_Lifecycle ==
    /\ Len(log) <= 3
    /\ log = SubSeq(Lifecycle, 1, Len(log))
    /\ made <= 1
    /\ stack["A"] = <<>> => log = Lifecycle
    /\ stack["A"] # <<>> =>
          /\ Len(log) = stack["A"][1].pc - 1
          /\ stack["A"][1].plant.state = (IF log = <<>> THEN "unbound" ELSE "live")

C7_Witness == log = Lifecycle /\ made = 1

\* C8: main reaches its end, and every call of eat_at_restaurant reaches
\* its return.
C8_Terminates ==
    /\ <>(stack["A"] = <<>>)
    /\ (stack["B"] # <<>>) ~> (stack["B"] = <<>>)

C8_Witness == stack["A"] = <<>> /\ BStack = <<>> /\ eatDone = 1

\* the items a path names, privacy aside
RECURSIVE NamedFrom(_, _)
NamedFrom(cur, rest) ==
    IF rest = <<>> THEN <<>>
    ELSE LET c == Child(cur, Head(rest))
         IN  IF c = None THEN << None >>
             ELSE << c >> \o NamedFrom(c, Tail(rest))

Named(path, from) ==
    IF Head(path) = "crate" THEN NamedFrom("crate", Tail(path))
    ELSE NamedFrom(from, path)

ReachableFromRoot == {"front_of_house", "hosting", "add_to_waitlist",
                      "eat_at_restaurant"}

\* C9: from the crate root a path resolves only if every segment below the
\* first is declared pub; front_of_house, hosting and add_to_waitlist
\* are reachable, seat_at_table, serving and the functions of serving are
\* not; the absolute and the relative path name the same function.
C9_Privacy ==
    (rdone /\ rfrom = "crate" /\ rpath # <<>>) =>
      LET items == Named(rpath, rfrom)
      IN  /\ rresult # None =>
                \A i \in 2..Len(items) : IsPub(items[i])
          /\ (items # <<>> /\ items[Len(items)] # None) =>
                rresult = (IF items[Len(items)] \in ReachableFromRoot
                           THEN items[Len(items)] ELSE None)
          /\ rpath = AbsPath =>
                /\ rresult = "add_to_waitlist"
                /\ rresult = Resolve(RelPath, rfrom)

C9_Witness ==
    /\ rdone
    /\ rfrom = "crate"
    /\ rpath = <<"front_of_house", "hosting", "seat_at_table">>
    /\ rresult = None

\* C10: each call of eat_at_restaurant invokes add_to_waitlist twice, first
\* through the absolute and then through the relative path, and no other
\* function is ever invoked: after k calls the count is 2k.
C10_TwoCallsEach ==
    /\ \A f \in NestedFns \ {"add_to_waitlist"} : calls[f] = 0
    /\ BStack = <<>> => calls["add_to_waitlist"] = 2 * eatDone
    /\ calls["eat_at_restaurant"] = eatDone + (IF InEat THEN 1 ELSE 0)
    /\ InEat =>
          /\ calls["add_to_waitlist"] = 2 * eatDone + BStack[1].pc - 1
          /\ BStack[1].pc = 2 => rpath = AbsPath
          /\ BStack[1].pc = 3 => rpath = RelPath
          /\ \A i \in 2..Len(BStack) : BStack[i].fn = "add_to_waitlist"

C10_Witness == BStack = <<>> /\ eatDone = 2 /\ calls["add_to_waitlist"] = 4

====
